---- MODULE Spec2Model ----
(***************************************************************************)
(* A model of Reader's Python import scripts:                              *)
(*   scripts/py/import_pdf.py, scripts/py/pdf_extract.py,                  *)
(*   scripts/py/import_epub.py, scripts/py/epub_extract.py.                *)
(*                                                                         *)
(* A Python str is a sequence of one-character strings; the characters     *)
(* LF, CR and SP are written as the tokens below.  A JSON value is a       *)
(* record [kind, val].  PyMuPDF, EbookLib, html.parser and BeautifulSoup   *)
(* are collaborators: what they hand to the scripts (pages, items, parser  *)
(* events, metadata, exceptions) is chosen nondeterministically.           *)
(***************************************************************************)
EXTENDS Integers, Sequences, FiniteSets, TLC

VARIABLES
    prog,       \* the script that runs
    pc,         \* position in its main()
    argc,       \* len(sys.argv)
    exists,     \* path.exists()
    unit,       \* the loop variable: the page / item read last
    index,      \* units read so far (enumerate's index in import_pdf)
    nread,      \* characters / parser events read so far
    sections,   \* sections (import_*), pages (pdf_extract), chapters (epub_extract)
    warnings,   \* warnings list
    metadata,   \* the normalised metadata
    payload,    \* the payload built for json.dump
    stdout,     \* what was written to standard output
    stderr,     \* what was written to standard error
    status,     \* the exit status, -1 while the script runs
    parts,      \* TextExtractor.parts
    events,     \* the parser events fed to a TextExtractor so far
    text,       \* the result of TextExtractor.get_text()
    lim         \* the size of the source: most units, most characters, alphabet

vars == <<prog, pc, argc, exists, unit, index, nread, sections, warnings,
          metadata, payload, stdout, stderr, status, parts, events, text, lim>>

mainvars == <<prog, pc, argc, exists, unit, index, nread, sections, warnings,
              metadata, payload, stdout, stderr, status>>

segvars == <<parts, events, text>>

-----------------------------------------------------------------------------
(* Bounds of the model.                                                    *)

\* Spec: the units of a source, and the characters / parser events in it
MaxUnits == 2
MaxDocChars == 3
MaxDocEvents == 3
\* SpecPdfText: the characters of a one-page source
MaxTextLen == 4
\* SpecSegmenter: the parser events of a fragment
MaxEvents == 5
\* SpecPdfIds: the pages of a source of blank and one-letter pages
MaxManyPages == 11

-----------------------------------------------------------------------------
(* Characters and strings.                                                 *)

LF == "LF"
CR == "CR"
SP == "SP"
HY == "-"

\* str.isspace / the regular expression class \s, on the model's characters
Whitespace == {SP, LF, CR}

RECURSIVE Concat(_)
\* "".join(seq)
Concat(ss) == IF ss = <<>> THEN <<>> ELSE Head(ss) \o Concat(Tail(ss))

RECURSIVE Join(_, _)
\* sep.join(seq)
Join(ss, sep) ==
    IF ss = <<>> THEN <<>>
    ELSE IF Len(ss) = 1 THEN ss[1]
    ELSE ss[1] \o sep \o Join(Tail(ss), sep)

RECURSIVE LStrip(_)
LStrip(s) ==
    IF s # <<>> /\ Head(s) \in Whitespace THEN LStrip(Tail(s)) ELSE s

RECURSIVE RStrip(_)
RStrip(s) ==
    IF s # <<>> /\ s[Len(s)] \in Whitespace
    THEN RStrip(SubSeq(s, 1, Len(s) - 1)) ELSE s

\* str.strip()
Strip(s) == RStrip(LStrip(s))

RECURSIVE Split(_, _, _)
\* str.split(sep) for a two-character separator <<c, c>>: cut at each
\* occurrence found scanning left to right; acc is the block being read
Split(s, c, acc) ==
    IF s = <<>> THEN <<acc>>
    ELSE IF Len(s) >= 2 /\ s[1] = c /\ s[2] = c
         THEN <<acc>> \o Split(SubSeq(s, 3, Len(s)), c, <<>>)
         ELSE Split(Tail(s), c, Append(acc, Head(s)))

RECURSIVE CollapseSpace(_)
\* re.sub(r"\s+", " ", s)
CollapseSpace(s) ==
    IF s = <<>> THEN <<>>
    ELSE IF Head(s) \in Whitespace
         THEN <<SP>> \o CollapseSpace(LStrip(s))
         ELSE <<Head(s)>> \o CollapseSpace(Tail(s))

RECURSIVE RemoveHyphenBreak(_)
\* LINE_HYPHEN.sub("", s): every "-\n" removed, scanning left to right
RemoveHyphenBreak(s) ==
    IF s = <<>> THEN <<>>
    ELSE IF Len(s) >= 2 /\ s[1] = HY /\ s[2] = LF
         THEN RemoveHyphenBreak(SubSeq(s, 3, Len(s)))
         ELSE <<Head(s)>> \o RemoveHyphenBreak(Tail(s))

\* str.replace(a, b) for single characters
Replace(s, a, b) == [i \in 1..Len(s) |-> IF s[i] = a THEN b ELSE s[i]]

Digit(d) == CASE d = 0 -> "0" [] d = 1 -> "1" [] d = 2 -> "2" [] d = 3 -> "3"
              [] d = 4 -> "4" [] d = 5 -> "5" [] d = 6 -> "6" [] d = 7 -> "7"
              [] d = 8 -> "8" [] d = 9 -> "9"

RECURSIVE Str(_)
\* str(n) for n >= 0: the decimal digits
Str(n) == IF n < 10 THEN <<Digit(n)>> ELSE Str(n \div 10) \o <<Digit(n % 10)>>

RECURSIVE StringsUpTo(_, _)
\* every string over chars of length at most n
StringsUpTo(chars, n) ==
    IF n = 0 THEN {<<>>}
    ELSE LET shorter == StringsUpTo(chars, n - 1)
         IN  shorter \cup {Append(s, c) : s \in shorter, c \in chars}

-----------------------------------------------------------------------------
(* JSON values.                                                            *)

JNull == [kind |-> "null", val |-> <<>>]
JStr(s) == [kind |-> "str", val |-> s]
JList(s) == [kind |-> "list", val |-> s]
JDict(d) == [kind |-> "dict", val |-> d]

ScalarKinds == {"str", "int", "float", "bool", "null"}

\* Python truthiness of None, a str or a list
Truthy(v) == v.kind # "null" /\ v.val # <<>>

\* dict.get(key)
Get(d, k) == IF k \in DOMAIN d THEN d[k] ELSE JNull

\* a or b
Or(a, b) == IF Truthy(a) THEN a ELSE b

-----------------------------------------------------------------------------
(* pdf_extract.py: the text normaliser.                                    *)

NonBlank(block) == Strip(block) # <<>>

CleanBlock(block) == Strip(CollapseSpace(block))

\* the list comprehension of clean_text: the paragraphs
Paragraphs(raw) ==
    LET t == Replace(RemoveHyphenBreak(raw), CR, LF)
        blocks == SelectSeq(Split(t, LF, <<>>), NonBlank)
    IN  [i \in 1..Len(blocks) |-> CleanBlock(blocks[i])]

clean_text(raw) == Join(Paragraphs(raw), <<LF, LF>>)

-----------------------------------------------------------------------------
(* What the collaborators can hand over.                                   *)

PdfChars == {"a", HY, SP, LF, CR}

\* document.metadata of PyMuPDF: a flat dict, or None
PdfMetaVals == {JStr(<<"T">>), JStr(<<>>), JNull, JList(<<"[", "]">>)}
PdfMetas ==
    {<<>>} \cup [{"title"} -> PdfMetaVals]
           \cup [{"title", "lang"} -> {JStr(<<"T">>), JList(<<"[", "]">>)}]

\* pdf_path.stem
Stem == <<"f">>

NoPayload == [ok |-> FALSE]

\* the pages left to read, within the size of the source
Min(a, b) == IF a < b THEN a ELSE b

NextPages == IF index < lim.units
             THEN StringsUpTo(lim.chars, Min(lim.page, lim.total - nread))
             ELSE {}

\* a script ends: what it wrote to the error stream, and its exit status
Exit(msg, code) ==
    /\ pc' = "exit"
    /\ stderr' = Append(stderr, msg)
    /\ status' = code

-----------------------------------------------------------------------------
(* import_pdf.py                                                           *)

\* page_to_section numbering the pages from 0
page_to_section_from_zero(page, i) ==
    LET t == Strip(page)
    IN  IF t = <<>> THEN <<>>
        ELSE <<[id |-> Str(i), heading |-> JNull, content |-> t]>>

\* page_to_section(page, index), None being <<>> and a section <<section>>
page_to_section(page, i) ==
    LET t == Strip(page)
    IN  IF t = <<>> THEN <<>>
        ELSE <<[id |-> Str(i + 1), heading |-> JNull, content |-> t]>>

\* import_pdf.normalise_metadata
pdf_normalise_metadata(md) ==
    LET keep == {k \in DOMAIN md : md[k].kind \in ScalarKinds}
    IN  [k \in keep |-> md[k]]

\* the warnings of a document with these sections
pdf_warnings(secs) ==
    IF secs = <<>> THEN <<"No se encontro texto en el PDF">> ELSE <<>>

ImportPdfArgs ==
    /\ prog = "import_pdf" /\ pc = "start"
    /\ IF argc # 2
       THEN Exit("usage", 1)
       ELSE pc' = "path" /\ UNCHANGED <<stderr, status>>
    /\ UNCHANGED <<prog, argc, exists, unit, index, nread, sections, warnings,
                   metadata, payload, stdout, segvars, lim>>

ImportPdfPath ==
    /\ prog = "import_pdf" /\ pc = "path"
    /\ IF ~exists
       THEN Exit("not found", 1)
       ELSE pc' = "open" /\ UNCHANGED <<stderr, status>>
    /\ UNCHANGED <<prog, argc, exists, unit, index, nread, sections, warnings,
                   metadata, payload, stdout, segvars, lim>>

\* fitz.open succeeds
ImportPdfOpen ==
    /\ prog = "import_pdf" /\ pc = "open"
    /\ pc' = "loop"
    /\ sections' = <<>>
    /\ UNCHANGED <<prog, argc, exists, unit, index, nread, warnings, metadata,
                   payload, stdout, stderr, status, segvars, lim>>

\* fitz.open raises
ImportPdfOpenFail ==
    /\ prog = "import_pdf" /\ pc = "open"
    /\ Exit("unable to open", 1)
    /\ UNCHANGED <<prog, argc, exists, unit, index, nread, sections, warnings,
                   metadata, payload, stdout, segvars, lim>>

\* one iteration of the loop over the pages
ImportPdfPage ==
    /\ prog = "import_pdf" /\ pc = "loop"
    /\ \E page \in NextPages :
          /\ unit' = page
          /\ sections' = sections \o page_to_section(page, index)
          /\ nread' = nread + Len(page)
    /\ index' = index + 1
    /\ UNCHANGED <<prog, pc, argc, exists, warnings, metadata, payload,
                   stdout, stderr, status, segvars, lim>>

\* the iteration raises and the sections read so far are written out
ImportPdfPageFailPartial ==
    /\ prog = "import_pdf" /\ pc = "loop"
    /\ Exit("traceback", 1)
    /\ stdout' = Append(stdout, [sections |-> sections])
    /\ UNCHANGED <<prog, argc, exists, unit, index, nread, sections, warnings,
                   metadata, payload, segvars, lim>>

\* the iteration raises: nothing catches it, the interpreter prints the
\* traceback and exits with status 1
ImportPdfPageFail ==
    /\ prog = "import_pdf" /\ pc = "loop"
    /\ Exit("traceback", 1)
    /\ UNCHANGED <<prog, argc, exists, unit, index, nread, sections, warnings,
                   metadata, payload, stdout, segvars, lim>>

\* the pages are exhausted: warnings, metadata, title, language, payload
ImportPdfAssemble ==
    /\ prog = "import_pdf" /\ pc = "loop"
    /\ \E md \in PdfMetas :
          LET m == pdf_normalise_metadata(md)
              title == Get(m, "title")
              language == Or(Get(m, "language"), Get(m, "lang"))
              w == pdf_warnings(sections)
          IN  /\ warnings' = w
              /\ metadata' = m
              /\ payload' = [title |-> IF Truthy(title) THEN title ELSE JNull,
                             language |-> IF Truthy(language) THEN language
                                          ELSE JNull,
                             sections |-> sections,
                             metadata |-> m,
                             warnings |-> w]
    /\ pc' = "dump"
    /\ UNCHANGED <<prog, argc, exists, unit, index, nread, sections, stdout,
                   stderr, status, segvars, lim>>

\* json.dump(payload, sys.stdout), return 0
ImportPdfDump ==
    /\ prog = "import_pdf" /\ pc = "dump"
    /\ stdout' = Append(stdout, payload)
    /\ status' = 0
    /\ pc' = "exit"
    /\ UNCHANGED <<prog, argc, exists, unit, index, nread, sections, warnings,
                   metadata, payload, stderr, segvars, lim>>

NextImportPdf ==
    \/ ImportPdfArgs
    \/ ImportPdfPath
    \/ ImportPdfOpen
    \/ ImportPdfOpenFail
    \/ ImportPdfPage
    \/ ImportPdfPageFail
    \/ ImportPdfAssemble
    \/ ImportPdfDump

-----------------------------------------------------------------------------
(* pdf_extract.py                                                          *)

PdfExtractArgs ==
    /\ prog = "pdf_extract" /\ pc = "start"
    /\ IF argc # 2
       THEN Exit("Uso", 1)
       ELSE pc' = "path" /\ UNCHANGED <<stderr, status>>
    /\ UNCHANGED <<prog, argc, exists, unit, index, nread, sections, warnings,
                   metadata, payload, stdout, segvars, lim>>

PdfExtractPath ==
    /\ prog = "pdf_extract" /\ pc = "path"
    /\ IF ~exists
       THEN Exit("PDF_NOT_FOUND", 1)
       ELSE pc' = "open" /\ UNCHANGED <<stderr, status>>
    /\ UNCHANGED <<prog, argc, exists, unit, index, nread, sections, warnings,
                   metadata, payload, stdout, segvars, lim>>

PdfExtractOpen ==
    /\ prog = "pdf_extract" /\ pc = "open"
    /\ pc' = "loop"
    /\ sections' = <<>>
    /\ UNCHANGED <<prog, argc, exists, unit, index, nread, warnings, metadata,
                   payload, stdout, stderr, status, segvars, lim>>

\* fitz.open raises: SystemExit with the JSON error as its message, which
\* the interpreter prints to the error stream, exiting with status 1
PdfExtractOpenFail ==
    /\ prog = "pdf_extract" /\ pc = "open"
    /\ Exit("PDF_OPEN_FAIL", 1)
    /\ UNCHANGED <<prog, argc, exists, unit, index, nread, sections, warnings,
                   metadata, payload, stdout, segvars, lim>>

PdfExtractPage ==
    /\ prog = "pdf_extract" /\ pc = "loop"
    /\ \E page \in NextPages :
          /\ unit' = page
          /\ sections' = Append(sections, [text |-> clean_text(page)])
          /\ nread' = nread + Len(page)
    /\ index' = index + 1
    /\ UNCHANGED <<prog, pc, argc, exists, warnings, metadata, payload,
                   stdout, stderr, status, segvars, lim>>

\* an exception in extract(): main turns it into SystemExit
PdfExtractPageFail ==
    /\ prog = "pdf_extract" /\ pc = "loop"
    /\ Exit("PDF_PARSE_FAIL", 1)
    /\ UNCHANGED <<prog, argc, exists, unit, index, nread, sections, warnings,
                   metadata, payload, stdout, segvars, lim>>

PdfExtractPayload ==
    /\ prog = "pdf_extract" /\ pc = "loop"
    /\ \E md \in PdfMetas :
          /\ metadata' = md
          /\ payload' = [ok |-> TRUE,
                         pages |-> sections,
                         meta |-> [title |-> Or(Get(md, "title"), JStr(Stem)),
                                   author |-> Or(Get(md, "author"), JStr(<<>>))]]
    /\ pc' = "print"
    /\ UNCHANGED <<prog, argc, exists, unit, index, nread, sections, warnings,
                   stdout, stderr, status, segvars, lim>>

PdfExtractPrint ==
    /\ prog = "pdf_extract" /\ pc = "print"
    /\ stdout' = Append(stdout, payload)
    /\ status' = 0
    /\ pc' = "exit"
    /\ UNCHANGED <<prog, argc, exists, unit, index, nread, sections, warnings,
                   metadata, payload, stderr, segvars, lim>>

NextPdfExtract ==
    \/ PdfExtractArgs
    \/ PdfExtractPath
    \/ PdfExtractOpen
    \/ PdfExtractOpenFail
    \/ PdfExtractPage
    \/ PdfExtractPageFail
    \/ PdfExtractPayload
    \/ PdfExtractPrint

-----------------------------------------------------------------------------
(* import_epub.py: the markup segmenter.                                   *)

BLOCK_TAGS == {"p", "div", "section", "article", "h1", "h2", "h3", "h4", "h5",
               "h6", "li", "ol", "ul", "blockquote", "br"}

\* the callbacks html.parser makes: a start tag, an end tag, character data
StartEv(t) == [type |-> "start", tag |-> t, data |-> <<>>]
EndEv(t) == [type |-> "end", tag |-> t, data |-> <<>>]
DataEv(d) == [type |-> "data", tag |-> "", data |-> d]

\* html.unescape, on the model's characters: the reference &amp; becomes &
unescape(s) == [i \in 1..Len(s) |-> IF s[i] = "&amp;" THEN "&" ELSE s[i]]

handle_starttag(ps, tag) == IF tag \in BLOCK_TAGS THEN Append(ps, <<LF>>) ELSE ps

handle_endtag(ps, tag) == IF tag \in BLOCK_TAGS THEN Append(ps, <<LF>>) ELSE ps

handle_data(ps, data) == IF data # <<>> THEN Append(ps, unescape(data)) ELSE ps

RECURSIVE SplitLines(_, _)
\* str.splitlines(): cut at LF, CR and CR LF; no empty last line
SplitLines(s, acc) ==
    IF s = <<>> THEN (IF acc = <<>> THEN <<>> ELSE <<acc>>)
    ELSE IF Len(s) >= 2 /\ s[1] = CR /\ s[2] = LF
         THEN <<acc>> \o SplitLines(SubSeq(s, 3, Len(s)), <<>>)
    ELSE IF s[1] \in {LF, CR}
         THEN <<acc>> \o SplitLines(Tail(s), <<>>)
    ELSE SplitLines(Tail(s), Append(acc, s[1]))

NonEmpty(line) == line # <<>>

\* get_text without the filter of the empty lines
get_text_unfiltered(ps) ==
    LET split == SplitLines(Concat(ps), <<>>)
    IN  Join([i \in 1..Len(split) |-> Strip(split[i])], <<LF>>)

\* TextExtractor.get_text
get_text(ps) ==
    LET split == SplitLines(Concat(ps), <<>>)
        lines == [i \in 1..Len(split) |-> Strip(split[i])]
        filtered == SelectSeq(lines, NonEmpty)
    IN  Join(filtered, <<LF>>)

\* one callback of parser.feed
Handle(ps, ev) ==
    CASE ev.type = "start" -> handle_starttag(ps, ev.tag)
      [] ev.type = "end" -> handle_endtag(ps, ev.tag)
      [] ev.type = "data" -> handle_data(ps, ev.data)

RECURSIVE Feed(_, _)
\* parser.feed(content): the callbacks in the order of the markup
Feed(ps, evs) == IF evs = <<>> THEN ps ELSE Feed(Handle(ps, Head(evs)), Tail(evs))

html_to_text(content) == get_text(Feed(<<>>, content))

\* the callbacks a fragment can make, within the size of the source
EventAlphabet ==
    {StartEv(t) : t \in lim.tags} \cup {EndEv(t) : t \in lim.tags}
        \cup {DataEv(<<c>>) : c \in lim.chars}

SegStart ==
    /\ prog = "html_to_text" /\ pc = "feed" /\ Len(events) < lim.total
    /\ \E t \in lim.tags :
          /\ parts' = handle_starttag(parts, t)
          /\ events' = Append(events, StartEv(t))
    /\ UNCHANGED <<mainvars, text, lim>>

SegEnd ==
    /\ prog = "html_to_text" /\ pc = "feed" /\ Len(events) < lim.total
    /\ \E t \in lim.tags :
          /\ parts' = handle_endtag(parts, t)
          /\ events' = Append(events, EndEv(t))
    /\ UNCHANGED <<mainvars, text, lim>>

SegData ==
    /\ prog = "html_to_text" /\ pc = "feed" /\ Len(events) < lim.total
    /\ \E c \in lim.chars :
          /\ parts' = handle_data(parts, <<c>>)
          /\ events' = Append(events, DataEv(<<c>>))
    /\ UNCHANGED <<mainvars, text, lim>>

\* parser.close() and get_text()
SegGetText ==
    /\ prog = "html_to_text" /\ pc = "feed"
    /\ text' = get_text(parts)
    /\ pc' = "done"
    /\ UNCHANGED <<prog, argc, exists, unit, index, nread, sections, warnings,
                   metadata, payload, stdout, stderr, status, parts, events, lim>>

NextSegmenter == SegStart \/ SegEnd \/ SegData \/ SegGetText

-----------------------------------------------------------------------------
(* import_epub.py                                                          *)

\* item.get_name() of the item at a position of the book
ItemName(i) == <<"c", "h">> \o Str(i + 1)

\* getattr(item, "title", None)
ItemTitles == {JNull, JStr(<<>>), JStr(<<"T">>)}

\* book.metadata of EbookLib: namespace -> name -> list of (value, attributes);
\* an entry is written as its value
EpubMetas ==
    {[ns \in {} |-> <<>>],
     [ns \in {"DC"} |-> [name \in {"title"} |-> <<JStr(<<"T">>)>>]],
     [ns \in {"DC"} |-> [name \in {"title", "language"} |->
                            IF name = "title" THEN <<JStr(<<>>), JStr(<<"T">>)>>
                            ELSE <<JStr(<<"e", "s">>)>>]],
     [ns \in {"DC", "OPF"} |-> [name \in {"title"} |-> <<JNull>>]]}

\* book.get_metadata(namespace, name): the values of the entries
get_metadata(md, ns, name) ==
    IF ns \in DOMAIN md /\ name \in DOMAIN md[ns] THEN md[ns][name] ELSE <<>>

RECURSIVE first_metadata(_)
first_metadata(values) ==
    IF values = <<>> THEN JNull
    ELSE IF Truthy(Head(values)) THEN Head(values)
    ELSE first_metadata(Tail(values))

\* import_epub.normalise_metadata: every entry is a non-empty tuple, so
\* the comprehension keeps the value of each
epub_normalise_metadata(md) ==
    [ns \in DOMAIN md |->
        JDict([name \in DOMAIN md[ns] |-> JList(md[ns][name])])]

\* the body of the loop over the items: the section appended, if any
item_to_section(item) ==
    LET t == html_to_text(item.content)
    IN  IF t = <<>> THEN <<>>
        ELSE <<[id |-> item.name, heading |-> item.title, content |-> t]>>

\* the fragments left to read, within the size of the source
NextContents == IF index < lim.units
                THEN StringsUpTo(EventAlphabet, Min(lim.page, lim.total - nread))
                ELSE {}

\* the warning appended whatever the sections
epub_warnings_always(secs) == <<"No se encontro texto en el EPUB">>

\* the warnings of a document with these sections
epub_warnings(secs) ==
    IF secs = <<>> THEN <<"No se encontro texto en el EPUB">> ELSE <<>>

ImportEpubArgs ==
    /\ prog = "import_epub" /\ pc = "start"
    /\ IF argc # 2
       THEN Exit("usage", 1)
       ELSE pc' = "path" /\ UNCHANGED <<stderr, status>>
    /\ UNCHANGED <<prog, argc, exists, unit, index, nread, sections, warnings,
                   metadata, payload, stdout, segvars, lim>>

ImportEpubPath ==
    /\ prog = "import_epub" /\ pc = "path"
    /\ IF ~exists
       THEN Exit("not found", 1)
       ELSE pc' = "open" /\ UNCHANGED <<stderr, status>>
    /\ UNCHANGED <<prog, argc, exists, unit, index, nread, sections, warnings,
                   metadata, payload, stdout, segvars, lim>>

ImportEpubOpen ==
    /\ prog = "import_epub" /\ pc = "open"
    /\ pc' = "loop"
    /\ sections' = <<>>
    /\ UNCHANGED <<prog, argc, exists, unit, index, nread, warnings, metadata,
                   payload, stdout, stderr, status, segvars, lim>>

ImportEpubOpenFail ==
    /\ prog = "import_epub" /\ pc = "open"
    /\ Exit("unable to open", 1)
    /\ UNCHANGED <<prog, argc, exists, unit, index, nread, sections, warnings,
                   metadata, payload, stdout, segvars, lim>>

ImportEpubItem ==
    /\ prog = "import_epub" /\ pc = "loop"
    /\ \E content \in NextContents, title \in ItemTitles :
          LET item == [name |-> ItemName(index), title |-> title,
                       content |-> content]
          IN  /\ unit' = item
              /\ sections' = sections \o item_to_section(item)
              /\ nread' = nread + Len(content)
    /\ index' = index + 1
    /\ UNCHANGED <<prog, pc, argc, exists, warnings, metadata, payload,
                   stdout, stderr, status, segvars, lim>>

ImportEpubItemFail ==
    /\ prog = "import_epub" /\ pc = "loop"
    /\ Exit("traceback", 1)
    /\ UNCHANGED <<prog, argc, exists, unit, index, nread, sections, warnings,
                   metadata, payload, stdout, segvars, lim>>

ImportEpubAssemble ==
    /\ prog = "import_epub" /\ pc = "loop"
    /\ \E md \in EpubMetas :
          LET m == epub_normalise_metadata(md)
              w == epub_warnings(sections)
          IN  /\ warnings' = w
              /\ metadata' = m
              /\ payload' = [title |-> first_metadata(get_metadata(md, "DC", "title")),
                             language |-> first_metadata(
                                              get_metadata(md, "DC", "language")),
                             sections |-> sections,
                             metadata |-> m,
                             warnings |-> w]
    /\ pc' = "dump"
    /\ UNCHANGED <<prog, argc, exists, unit, index, nread, sections, stdout,
                   stderr, status, segvars, lim>>

ImportEpubDump ==
    /\ prog = "import_epub" /\ pc = "dump"
    /\ stdout' = Append(stdout, payload)
    /\ status' = 0
    /\ pc' = "exit"
    /\ UNCHANGED <<prog, argc, exists, unit, index, nread, sections, warnings,
                   metadata, payload, stderr, segvars, lim>>

NextImportEpub ==
    \/ ImportEpubArgs
    \/ ImportEpubPath
    \/ ImportEpubOpen
    \/ ImportEpubOpenFail
    \/ ImportEpubItem
    \/ ImportEpubItemFail
    \/ ImportEpubAssemble
    \/ ImportEpubDump

-----------------------------------------------------------------------------
(* epub_extract.py                                                         *)

\* the selector of the tags extract_chapter removes with their subtrees
EXCLUDED_TAGS == {"script", "style", "footnote", "sup"}

\* the tags extract_chapter reads paragraphs from
PARAGRAPH_TAGS == {"p", "div"}

\* CLEAN_RE.sub(" ", text).strip()
clean_paragraph(t) == Strip(CollapseSpace(t))

\* the position of the innermost open element named tag, 0 if none is open
LastOpen(stack, tag) ==
    LET at == {i \in 1..Len(stack) : stack[i].tag = tag}
    IN  IF at = {} THEN 0 ELSE CHOOSE i \in at : \A j \in at : j <= i

RECURSIVE ElementTexts(_, _, _)
\* BeautifulSoup's tree, read as extract_chapter reads it: for each p / div
\* outside the removed subtrees, in the order of the start tags,
\* element.get_text(separator=" ").  stack holds the open elements, each
\* with the place in out of its text (0: not a paragraph element); an end
\* tag closes the innermost open element of its name, or nothing.
ElementTexts(evs, stack, out) ==
    IF evs = <<>> THEN out
    ELSE
      LET ev == Head(evs)
          removed == \E i \in 1..Len(stack) : stack[i].tag \in EXCLUDED_TAGS
          open == {stack[i].slot : i \in 1..Len(stack)}
          Add(chars) == [k \in 1..Len(out) |->
                            IF k \in open THEN out[k] \o chars ELSE out[k]]
      IN  CASE ev.type = "start" ->
                 LET para == ev.tag \in PARAGRAPH_TAGS /\ ~removed
                     out2 == IF para THEN Append(Add(<<SP>>), <<>>)
                             ELSE Add(<<SP>>)
                     slot == IF para THEN Len(out2) ELSE 0
                 IN  ElementTexts(Tail(evs),
                                  Append(stack, [tag |-> ev.tag, slot |-> slot]),
                                  out2)
            [] ev.type = "end" ->
                 LET m == LastOpen(stack, ev.tag)
                 IN  ElementTexts(Tail(evs),
                                  IF m = 0 THEN stack ELSE SubSeq(stack, 1, m - 1),
                                  Add(<<SP>>))
            [] ev.type = "data" ->
                 ElementTexts(Tail(evs), stack,
                              IF removed THEN out ELSE Add(ev.data))

\* soup.title.string: None without a title element holding one string
SoupTitles == {JNull, JStr(<<SP>>), JStr(<<"T", SP>>)}

\* extract_chapter(item); item.title is soup.title.string
extract_chapter(item) ==
    LET texts == ElementTexts(item.content, <<>>, <<>>)
        cleaned == [i \in 1..Len(texts) |-> clean_paragraph(texts[i])]
    IN  [title |-> IF Truthy(item.title) THEN JStr(Strip(item.title.val))
                   ELSE JStr(item.name),
         paragraphs |-> SelectSeq(cleaned, NonEmpty)]

EpubExtractArgs ==
    /\ prog = "epub_extract" /\ pc = "start"
    /\ IF argc # 2
       THEN Exit("Uso", 1)
       ELSE pc' = "path" /\ UNCHANGED <<stderr, status>>
    /\ UNCHANGED <<prog, argc, exists, unit, index, nread, sections, warnings,
                   metadata, payload, stdout, segvars, lim>>

EpubExtractPath ==
    /\ prog = "epub_extract" /\ pc = "path"
    /\ IF ~exists
       THEN Exit("EPUB_NOT_FOUND", 1)
       ELSE pc' = "open" /\ UNCHANGED <<stderr, status>>
    /\ UNCHANGED <<prog, argc, exists, unit, index, nread, sections, warnings,
                   metadata, payload, stdout, segvars, lim>>

EpubExtractOpen ==
    /\ prog = "epub_extract" /\ pc = "open"
    /\ pc' = "loop"
    /\ sections' = <<>>
    /\ UNCHANGED <<prog, argc, exists, unit, index, nread, warnings, metadata,
                   payload, stdout, stderr, status, segvars, lim>>

EpubExtractOpenFail ==
    /\ prog = "epub_extract" /\ pc = "open"
    /\ Exit("EPUB_OPEN_FAIL", 1)
    /\ UNCHANGED <<prog, argc, exists, unit, index, nread, sections, warnings,
                   metadata, payload, stdout, segvars, lim>>

EpubExtractItem ==
    /\ prog = "epub_extract" /\ pc = "loop"
    /\ \E content \in NextContents, title \in SoupTitles :
          LET item == [name |-> ItemName(index), title |-> title,
                       content |-> content]
          IN  /\ unit' = item
              /\ sections' = Append(sections, extract_chapter(item))
              /\ nread' = nread + Len(content)
    /\ index' = index + 1
    /\ UNCHANGED <<prog, pc, argc, exists, warnings, metadata, payload,
                   stdout, stderr, status, segvars, lim>>

EpubExtractItemFail ==
    /\ prog = "epub_extract" /\ pc = "loop"
    /\ Exit("EPUB_PARSE_FAIL", 1)
    /\ UNCHANGED <<prog, argc, exists, unit, index, nread, sections, warnings,
                   metadata, payload, stdout, segvars, lim>>

\* extract() returns, main prints the payload
EpubExtractPrint ==
    /\ prog = "epub_extract" /\ pc = "loop"
    /\ payload' = [ok |-> TRUE, chapters |-> sections]
    /\ stdout' = Append(stdout, [ok |-> TRUE, chapters |-> sections])
    /\ status' = 0
    /\ pc' = "exit"
    /\ UNCHANGED <<prog, argc, exists, unit, index, nread, sections, warnings,
                   metadata, stderr, segvars, lim>>

NextEpubExtract ==
    \/ EpubExtractArgs
    \/ EpubExtractPath
    \/ EpubExtractOpen
    \/ EpubExtractOpenFail
    \/ EpubExtractItem
    \/ EpubExtractItemFail
    \/ EpubExtractPrint

\* BeautifulSoup reads one more piece of the body of an item
SoupFeed ==
    /\ prog = "extract_chapter" /\ pc = "feed" /\ Len(events) < lim.total
    /\ \E ev \in EventAlphabet : events' = Append(events, ev)
    /\ UNCHANGED <<mainvars, parts, text, lim>>

\* extract_chapter on the body read
SoupExtract ==
    /\ prog = "extract_chapter" /\ pc = "feed"
    /\ \E title \in SoupTitles :
          LET item == [name |-> ItemName(0), title |-> title, content |-> events]
          IN  /\ unit' = item
              /\ sections' = <<extract_chapter(item)>>
    /\ pc' = "done"
    /\ UNCHANGED <<prog, argc, exists, index, nread, warnings, metadata,
                   payload, stdout, stderr, status, segvars, lim>>

NextFragment == NextSegmenter \/ SoupFeed \/ SoupExtract

-----------------------------------------------------------------------------
(* The specifications.                                                     *)

Lim(units, total, page, chars, tags) ==
    [units |-> units, total |-> total, page |-> page, chars |-> chars,
     tags |-> tags]

InitVars(progs, start, args, there, l) ==
    /\ prog \in progs
    /\ pc = start
    /\ argc \in args
    /\ exists \in there
    /\ unit = <<>>
    /\ index = 0
    /\ nread = 0
    /\ sections = <<>>
    /\ warnings = <<>>
    /\ metadata = <<>>
    /\ payload = NoPayload
    /\ stdout = <<>>
    /\ stderr = <<>>
    /\ status = -1
    /\ parts = <<>>
    /\ events = <<>>
    /\ text = <<>>
    /\ lim = l

\* a script is started on a command line
InitRun(progs, l) == InitVars(progs, "start", {1, 2, 3}, BOOLEAN, l)

\* a fragment is handed to html_to_text or to extract_chapter
InitFragment(progs, l) == InitVars(progs, "feed", {2}, {TRUE}, l)

\* the four scripts, on sources of at most MaxUnits units
Init ==
    \/ InitRun({"import_pdf", "pdf_extract"},
               Lim(MaxUnits, MaxDocChars, MaxDocChars, PdfChars, {}))
    \/ InitRun({"import_epub", "epub_extract"},
               Lim(MaxUnits, MaxDocEvents, MaxDocEvents, {"x", SP},
                   {"p", "script"}))

Next == NextImportPdf \/ NextPdfExtract \/ NextImportEpub \/ NextEpubExtract

Spec == Init /\ [][Next]_vars

\* the two PDF scripts, on a source of one page of at most MaxTextLen characters
InitPdfText == InitRun({"import_pdf", "pdf_extract"},
                       Lim(1, MaxTextLen, MaxTextLen, PdfChars, {}))

NextPdf == NextImportPdf \/ NextPdfExtract

SpecPdfText == InitPdfText /\ [][NextPdf]_vars

\* import_pdf on a source of at most MaxManyPages pages, each blank or "a"
InitPdfIds == InitRun({"import_pdf"},
                      Lim(MaxManyPages, MaxManyPages, 1, {"a"}, {}))

SpecPdfIds == InitPdfIds /\ [][NextImportPdf]_vars

\* one fragment of at most MaxEvents parser events
InitSegmenter ==
    \/ InitFragment({"html_to_text"},
                    Lim(1, MaxEvents, MaxEvents, {"x", SP, LF, "&amp;"},
                        {"p", "script"}))
    \/ InitFragment({"extract_chapter"},
                    Lim(1, MaxEvents, MaxEvents, {"x", SP}, {"p", "script"}))

SpecSegmenter == InitSegmenter /\ [][NextFragment]_vars

-----------------------------------------------------------------------------
(* What the claims speak of.                                               *)

Visible(c) == c \notin Whitespace

\* the characters of a string that are not whitespace, in order
NonSpace(s) == SelectSeq(s, Visible)

RECURSIVE AllData(_)
\* the character data of a fragment, in order
AllData(evs) ==
    IF evs = <<>> THEN <<>>
    ELSE IF Head(evs).type = "data" THEN Head(evs).data \o AllData(Tail(evs))
    ELSE AllData(Tail(evs))

RECURSIVE VisibleData(_, _)
\* the character data of a fragment outside the excluded subtrees: depth
\* counts the excluded tags that are open
VisibleData(evs, depth) ==
    IF evs = <<>> THEN <<>>
    ELSE LET ev == Head(evs)
         IN  CASE ev.type = "start" ->
                    VisibleData(Tail(evs),
                                IF ev.tag \in EXCLUDED_TAGS THEN depth + 1 ELSE depth)
               [] ev.type = "end" ->
                    VisibleData(Tail(evs),
                                IF ev.tag \in EXCLUDED_TAGS /\ depth > 0
                                THEN depth - 1 ELSE depth)
               [] ev.type = "data" ->
                    (IF depth = 0 THEN ev.data ELSE <<>>)
                        \o VisibleData(Tail(evs), depth)

NoExcludedTag(evs) == \A i \in 1..Len(evs) : evs[i].tag \notin EXCLUDED_TAGS

RECURSIVE CutAt(_, _, _)
\* a string cut at every c, the empty pieces kept
CutAt(s, c, acc) ==
    IF s = <<>> THEN <<acc>>
    ELSE IF Head(s) = c THEN <<acc>> \o CutAt(Tail(s), c, <<>>)
    ELSE CutAt(Tail(s), c, Append(acc, Head(s)))

\* the paragraphs of a content string: its lines
LinesOf(t) == IF t = <<>> THEN <<>> ELSE CutAt(t, LF, <<>>)

Last(seq) == seq[Len(seq)]

Importers == {"import_pdf", "import_epub"}

\* <p></p><p>Hello</p>, Hello being the one character x
TwoParagraphTags ==
    <<StartEv("p"), EndEv("p"), StartEv("p"), DataEv(<<"x">>), EndEv("p")>>

\* the page of the section at place k of sections, 0 if its id is no page's
PageOf(k) ==
    LET ps == {p \in 1..index : Str(p) = sections[k].id}
    IN  IF ps = {} THEN 0 ELSE CHOOSE p \in ps : TRUE

-----------------------------------------------------------------------------
(* The claims.                                                             *)

\* C1: in the Document written by import_pdf or import_epub, warnings is
\* non-empty exactly when sections is empty; with no section there is
\* exactly one warning, with a section there is none.
C1_WarningsIffNoSections ==
    (prog \in Importers /\ stdout # <<>>) =>
        LET d == stdout[1]
        IN  /\ (d.warnings # <<>>) <=> (d.sections = <<>>)
            /\ d.sections = <<>> => Len(d.warnings) = 1
            /\ d.sections # <<>> => d.warnings = <<>>

\* C1, witness: import_epub read two items, none gave a section, and the
\* Document written has one warning.
C1_Witness ==
    /\ prog = "import_epub" /\ stdout # <<>> /\ index = 2
    /\ stdout[1].sections = <<>>
    /\ Len(stdout[1].warnings) = 1

\* C2: clean_text is idempotent: the text pdf_extract stores for a page,
\* which is clean_text of the page, is left unchanged by clean_text.
C2_CleanTextIdempotent ==
    prog = "pdf_extract" =>
        \A k \in 1..Len(sections) :
            clean_text(sections[k].text) = sections[k].text

\* C3: a unit that is only whitespace, or only content inside excluded
\* tags, gives no Section, and no Section has empty content.
C3_BlankUnitNoSection ==
    /\ (prog = "import_pdf" /\ index >= 1 /\ Strip(unit) = <<>>) =>
           (sections = <<>> \/ Last(sections).id # Str(index))
    /\ (prog = "import_epub" /\ index >= 1
            /\ NonSpace(VisibleData(unit.content, 0)) = <<>>) =>
           (sections = <<>> \/ Last(sections).id # unit.name)
    /\ prog \in Importers =>
           \A k \in 1..Len(sections) : sections[k].content # <<>>

\* C4: character data inside an excluded subtree never reaches the output
\* of the markup scan: what html_to_text returns holds, whitespace aside,
\* the data outside the excluded subtrees and nothing else, and
\* extract_chapter gives no paragraph to a fragment whose data is all
\* inside excluded subtrees.
C4_ExcludedDataDropped ==
    /\ (prog = "html_to_text" /\ pc = "done") =>
           NonSpace(text) = NonSpace(unescape(VisibleData(events, 0)))
    /\ (prog = "extract_chapter" /\ pc = "done"
            /\ NonSpace(VisibleData(events, 0)) = <<>>) =>
           sections[1].paragraphs = <<>>

\* C5: the paragraphs the markup segmenter emits are non-empty and
\* trimmed, block boundaries with nothing between them give no empty
\* paragraph, the text of a fragment without excluded tags comes out in
\* the order of the source, and <p></p><p>Hello</p> gives the one
\* paragraph Hello.
C5_NoEmptySegment ==
    /\ (prog = "html_to_text" /\ pc = "done") =>
           /\ \A i \in 1..Len(LinesOf(text)) :
                  /\ LinesOf(text)[i] # <<>>
                  /\ Strip(LinesOf(text)[i]) = LinesOf(text)[i]
           /\ NoExcludedTag(events) =>
                  NonSpace(text) = NonSpace(unescape(AllData(events)))
           /\ events = TwoParagraphTags => text = <<"x">>
    /\ (prog = "extract_chapter" /\ pc = "done") =>
           /\ \A i \in 1..Len(sections[1].paragraphs) :
                  /\ sections[1].paragraphs[i] # <<>>
                  /\ Strip(sections[1].paragraphs[i]) = sections[1].paragraphs[i]
           /\ events = TwoParagraphTags => sections[1].paragraphs = <<<<"x">>>>

\* C5, witness: html_to_text was given <p></p><p>Hello</p> and returned
\* the single line Hello.
C5_Witness ==
    /\ prog = "html_to_text" /\ pc = "done"
    /\ events = TwoParagraphTags
    /\ text = <<"x">>

\* C6: no value of the metadata mapping of the Document written is a list
\* or a nested object.
C6_MetadataScalar ==
    (prog \in Importers /\ stdout # <<>>) =>
        \A k \in DOMAIN stdout[1].metadata :
            stdout[1].metadata[k].kind \in ScalarKinds

C8_ContentIsCleanText ==
    (prog = "import_pdf" /\ index >= 1 /\ Strip(unit) # <<>>) =>
        (sections # <<>> /\ Last(sections).content = clean_text(unit))

\* C9: in import_pdf the section ids are pairwise distinct, each is the
\* decimal 1-based position of its page, the sections are in increasing
\* page order, and a blank page gives no section and renumbers nothing:
\* after each page read, the last section is that page's, with the
\* page's position as id, exactly when the page is not blank.
C9_IdsArePagePositions ==
    prog = "import_pdf" =>
        /\ \A k \in 1..Len(sections) : PageOf(k) >= 1
        /\ \A k, l \in 1..Len(sections) :
               /\ k < l => PageOf(k) < PageOf(l)
               /\ k # l => sections[k].id # sections[l].id
        /\ index >= 1 =>
               IF Strip(unit) # <<>>
               THEN sections # <<>> /\ Last(sections).id = Str(index)
               ELSE sections = <<>> \/ PageOf(Len(sections)) < index

\* C9, witness: page 1 was blank, pages 2 and 11 were not, and the
\* sections have the ids "2" and "11".
C9_Witness ==
    /\ prog = "import_pdf" /\ index = 11
    /\ Len(sections) = 2
    /\ sections[1].id = <<"2">>
    /\ sections[2].id = <<"1", "1">>

\* C10: the Section of an EPUB item has the item's name as id and, as
\* heading, the item's title when there is one, otherwise the item's
\* name; the heading is never null.
C10_HeadingTitleOrName ==
    prog = "import_epub" =>
        /\ \A k \in 1..Len(sections) : sections[k].heading.kind # "null"
        /\ (index >= 1 /\ sections # <<>> /\ Last(sections).id = unit.name) =>
               Last(sections).heading =
                   IF Truthy(unit.title) THEN unit.title ELSE JStr(unit.name)

====
